---- MODULE Spec2Model ----
(***************************************************************************)
(* Storm Wiki pipeline adapters (zabirauf/pipelines).                      *)
(*                                                                         *)
(* Four variants of one adapter around the knowledge_storm engine:         *)
(*   "filters"      src/examples/filters/storm_wiki_pipeline.py            *)
(*   "providers"    src/examples/pipelines/providers/storm_wiki_pipeline.py*)
(*   "integrations" src/examples/pipelines/integrations/storm_wiki_pipeline.py *)
(*   "pipelines"    src/pipelines/storm_wiki_pipeline.py                   *)
(* The engine (STORMWikiRunner), the language-model provider and the file  *)
(* system are the environment: their outcomes are nondeterministic.        *)
(* Text is modelled as a sequence of pieces; concatenation is \o.          *)
(***************************************************************************)
EXTENDS Integers, Sequences, FiniteSets, TLC

VARIABLES
    variant,            \* which of the four source files is loaded
    OPENAI_API_KEY,     \* valves.OPENAI_API_KEY
    YOU_API_KEY,        \* valves.YOU_API_KEY
    adapter,            \* "unloaded" | "ready" | "failed"
    adapterError,       \* why loading/constructing failed ("" when it did not)
    temp_output_dir,    \* the attribute self.temp_output_dir (0: never set)
    dirs,               \* temporary directories that exist on disk
    created,            \* every directory mkdtemp has ever returned
    fs,                 \* files under each engine output directory
    active,             \* invocation slots the host may use
    inv,                \* per invocation: position, locals, result, call log
    shut_down,          \* on_shutdown has run
    citations_data,     \* input of generate_citations_markdown (renderer runs)
    citations_result    \* its outcome (renderer runs)

vars == <<variant, OPENAI_API_KEY, YOU_API_KEY, adapter, adapterError,
          temp_output_dir, dirs, created, fs, active, inv, shut_down,
          citations_data, citations_result>>

adapterVars == <<variant, OPENAI_API_KEY, YOU_API_KEY, adapter, adapterError,
                 temp_output_dir, dirs, created, fs, inv, shut_down>>

citeVars == <<citations_data, citations_result>>

-----------------------------------------------------------------------------
(* Bounds of the exploration *)

MaxDirs == 2        \* mkdtemp calls explored per run
MaxUrls == 2        \* URLs in the renderer's input (renderer runs)
MaxSnippets == 4    \* longest snippet list of one URL
MaxIndex == 2       \* largest citation number
MaxUserMessages == 2 \* most user-role messages in a conversation given to pipe

-----------------------------------------------------------------------------
(* Variants *)

Variants == {"filters", "providers", "integrations", "pipelines"}

\* research_topic allocates its own directory and configuration on each call
PerCall(v) == v \in {"filters", "providers"}

\* the variant whose research_topic appends a citations section
HasCitations(v) == v = "providers"

\* the variant with the chat entry point pipe
HasPipe(v) == v = "providers"

\* the variant that defines its own on_shutdown hook
HasShutdownHook(v) == v = "providers"

Keys == {"", "sk-key"}
Topics == {"Quantum Computing", "Rust"}
Invocations == {"a", "b"}

-----------------------------------------------------------------------------
(* Fixed strings of the source *)

MsgNoOpenAI == "OpenAPI Key not set, ask the user to set it up."
MsgNoYou == "You.com API Key not set, ask the user to set it up."
MsgNotFound == "Error: Polished article not found."
MsgRefusal == "I'm sorry, I can't chat about previous research."
MsgExtractPrefix == "Error extracting topic: "

-----------------------------------------------------------------------------
(* JSON values of url_to_info.json, as json.load returns them *)

\* a JSON scalar: a number, or a string with its text
Num(k) == [num |-> TRUE, n |-> k, s |-> ""]
Str(t) == [num |-> FALSE, n |-> 0, s |-> t]

\* dict.get(key, default)
Get(d, key, default) == IF key \in DOMAIN d THEN d[key] ELSE default

\* decimal texts Python's int() accepts, among the texts explored
DecimalText(t) ==
    CASE t = "0" -> <<0>>
      [] t = "1" -> <<1>>
      [] t = "2" -> <<2>>
      [] t = "3" -> <<3>>
      [] OTHER -> <<>>

\* int(v): <<n>> when the conversion succeeds, <<>> when it raises ValueError
int(v) == IF v.num THEN <<v.n>> ELSE DecimalText(v.s)

\* seq[:k]
Slice(seq, k) == SubSeq(seq, 1, IF Len(seq) < k THEN Len(seq) ELSE k)

SnippetLimit == 3

\* variation: an element is inserted in front of the elements with an equal key
InsertBeforeEqual(sorted, e) ==
    LET before == {j \in 1..Len(sorted) : sorted[j][1] < e[1]}
        k == Cardinality(before)
    IN  SubSeq(sorted, 1, k) \o <<e>> \o SubSeq(sorted, k + 1, Len(sorted))

\* list.sort(key=lambda x: x[0]): stable, ascending by the first component.
\* Insert e behind every element whose key is not greater than e's.
InsertByNumber(sorted, e) ==
    LET before == {j \in 1..Len(sorted) : sorted[j][1] <= e[1]}
        k == Cardinality(before)
    IN  SubSeq(sorted, 1, k) \o <<e>> \o SubSeq(sorted, k + 1, Len(sorted))

RECURSIVE SortByNumber(_)
SortByNumber(list) ==
    IF list = <<>> THEN <<>>
    ELSE InsertByNumber(SortByNumber(SubSeq(list, 1, Len(list) - 1)),
                        list[Len(list)])

\* position of a URL among the keys of url_to_info
InfoOf(url_to_info, url) ==
    (CHOOSE i \in 1..Len(url_to_info) : url_to_info[i].url = url)

RECURSIVE JoinSnippets(_)
JoinSnippets(snippets) ==
    IF snippets = <<>> THEN ""
    ELSE "- " \o Head(snippets) \o "\n\n" \o JoinSnippets(Tail(snippets))

\* the text one iteration of the rendering loop appends
EntryMarkdown(citation_number, url, info) ==
    LET title == IF info.title = <<>> THEN "Untitled" ELSE info.title[1]
        description == IF info.description = <<>>
                       THEN "No description available"
                       ELSE info.description[1]
        snippets == info.snippets
    IN  "### [" \o ToString(citation_number) \o "] [" \o title \o "]("
            \o url \o ")\n\n"
        \o description \o "\n\n"
        \o (IF snippets # <<>>
            THEN "**Relevant Snippets:**\n\n"
                 \o JoinSnippets(Slice(snippets, SnippetLimit))
            ELSE "")
        \o "---\n\n"

RECURSIVE JoinEntries(_, _)
JoinEntries(citations_list, url_to_info) ==
    IF citations_list = <<>> THEN ""
    ELSE LET e == Head(citations_list)
         IN  EntryMarkdown(e[1], e[2], url_to_info[InfoOf(url_to_info, e[2])].info)
             \o JoinEntries(Tail(citations_list), url_to_info)

\* what the rendering loop emits, entry by entry: number, URL, snippets listed
EmittedEntries(citations_list, url_to_info) ==
    [k \in 1..Len(citations_list) |->
        [number |-> citations_list[k][1],
         url |-> citations_list[k][2],
         snippets |-> Slice(url_to_info[InfoOf(url_to_info,
                                               citations_list[k][2])].info.snippets,
                            SnippetLimit)]]

Raised(kind) == [raised |-> kind, markdown |-> "", entries |-> <<>>]

\* Pipeline.generate_citations_markdown(citations_data)
generate_citations_markdown(data) ==
    IF "url_to_info" \notin data.keys THEN Raised("KeyError")
    ELSE LET uti == data.url_to_info IN
    IF uti # <<>> /\ "url_to_unified_index" \notin data.keys
    THEN Raised("KeyError")
    ELSE LET number(i) == int(Get(data.url_to_unified_index, uti[i].url, Str("0")))
         IN
    IF \E i \in 1..Len(uti) : number(i) = <<>> THEN Raised("ValueError")
    ELSE LET citations_list ==
                 SortByNumber([i \in 1..Len(uti) |-> <<number(i)[1], uti[i].url>>])
         IN  [raised |-> "",
              markdown |-> "## Citations\n\n" \o JoinEntries(citations_list, uti),
              entries |-> EmittedEntries(citations_list, uti)]

-----------------------------------------------------------------------------
(* Citations documents explored *)

UrlName(i) == "https://u" \o ToString(i)
SnippetTexts(i, k) == [j \in 1..k |-> "s" \o ToString(i) \o "." \o ToString(j)]

\* title and description of every record: both given, or both left out
MetaChoices == {<<<<>>, <<>>>>, <<<<"T">>, <<"D">>>>}

\* citation numbers a URL may carry: a JSON number, or a string that is no number
IndexValues == {Num(k) : k \in 0..MaxIndex} \cup {Str("x")}
NoNumber == [num |-> FALSE, n |-> 0, s |-> "<unassigned>"]

BothKeys == {"url_to_info", "url_to_unified_index"}

\* a document with n URLs; lens[i] snippets for URL i; idx[i] its number
Document(keys, n, meta, lens, idx) ==
    [keys |-> keys,
     url_to_info |->
        IF "url_to_info" \in keys
        THEN [i \in 1..n |->
                [url |-> UrlName(i),
                 info |-> [title |-> meta[1], description |-> meta[2],
                           snippets |-> SnippetTexts(i, lens[i])]]]
        ELSE <<>>,
     url_to_unified_index |->
        IF "url_to_unified_index" \in keys
        THEN [u \in {UrlName(i) : i \in {j \in 1..n : idx[j] # NoNumber}} |->
                idx[CHOOSE i \in 1..n : UrlName(i) = u]]
        ELSE [u \in {} |-> NoNumber]]

-----------------------------------------------------------------------------
(* Files of an engine output directory *)

\* an optional value: <<>> (none) or <<v>>
NoFiles == [polished |-> <<>>, citations |-> <<>>]

Malformed == [wellformed |-> FALSE, doc |-> Document({}, 0, <<<<>>, <<>>>>, <<>>, <<>>)]
Json(d) == [wellformed |-> TRUE, doc |-> d]

\* contents the engine may leave in storm_gen_article_polished.txt
PolishedContents == {"", "# Article\n\nBody [1]."}

\* documents the engine may leave in url_to_info.json during a run
\* documents the engine may leave in url_to_info.json during a run: one without
\* its keys, and one URL with MaxSnippets snippets whose citation number is
\* missing with its whole mapping, no number, or 1
RunDocuments ==
    {Document({}, 0, <<<<>>, <<>>>>, <<>>, <<>>),
     Document({"url_to_info"}, 1, <<<<"T">>, <<"D">>>>, <<MaxSnippets>>, <<NoNumber>>),
     Document(BothKeys, 1, <<<<"T">>, <<"D">>>>, <<MaxSnippets>>, <<Str("x")>>),
     Document(BothKeys, 1, <<<<"T">>, <<"D">>>>, <<MaxSnippets>>, <<Num(1)>>)}

RunCitations == {<<>>, <<Malformed>>} \cup {<<Json(d)>> : d \in RunDocuments}

\* what one run of the engine may leave in its output directory
EngineOutputs ==
    {[polished |-> p, citations |-> c] :
        p \in {<<>>} \cup {<<t>> : t \in PolishedContents}, c \in RunCitations}

\* files of a directory after the engine has written `new` over `old`
Overwrite(old, new) ==
    [polished |-> IF new.polished # <<>> THEN new.polished ELSE old.polished,
     citations |-> IF new.citations # <<>> THEN new.citations ELSE old.citations]

EngineErrors == {"engine failed"}
ExtractionErrors == {"Incorrect API key provided"}

\* replies of the topic-extraction model, and str.strip() on them
Replies == {"Quantum Computing", " Rust\n"}
strip(reply) == IF reply = " Rust\n" THEN "Rust" ELSE reply

Dirs == 1..MaxDirs

-----------------------------------------------------------------------------
(* Invocations *)

Idle == [pc |-> "idle", entry |-> "", topic |-> "", user_message_count |-> 0,
         title |-> FALSE, allocated |-> 0, output_dir |-> 0, run_args |-> {},
         result |-> <<>>, exc |-> <<>>, log |-> <<>>]

InFlight(i) == inv[i].pc \notin {"idle", "done", "raised"}

\* directories already promised to invocations that have not yet called mkdtemp
PendingDirs == Cardinality({i \in Invocations : inv[i].pc = "mkdtemp"})

CanStart(i) ==
    /\ adapter = "ready"
    /\ ~shut_down
    /\ i \in active
    /\ inv[i].pc = "idle"
    /\ Cardinality(created) + PendingDirs < MaxDirs

\* variation: the research-provider key is checked before the language-model key
CredentialCheckYouFirst(openai_key, you_key) ==
    IF you_key = "" THEN <<MsgNoYou>>
    ELSE IF openai_key = "" THEN <<MsgNoOpenAI>>
    ELSE <<>>

\* variation: the language-model key is not checked
CredentialCheckNoOpenAI(openai_key, you_key) ==
    IF you_key = "" THEN <<MsgNoYou>> ELSE <<>>

\* research_topic, lines "if ... == '': return ..." : <<>> when both keys are set
CredentialCheck(openai_key, you_key) ==
    IF openai_key = "" THEN <<MsgNoOpenAI>>
    ELSE IF you_key = "" THEN <<MsgNoYou>>
    ELSE <<>>

\* the five OpenAIModel objects a per-call variant builds before mkdtemp
LmConfigCalls == [k \in 1..5 |-> "OpenAIModel"]

\* research_topic from its first line up to (not including) mkdtemp
BeginResearch(rec, topic) ==
    LET guidance == CredentialCheck(OPENAI_API_KEY, YOU_API_KEY)
    IN  IF guidance # <<>>
        THEN [rec EXCEPT !.topic = topic, !.result = guidance, !.pc = "done"]
        ELSE IF PerCall(variant)
        THEN [rec EXCEPT !.topic = topic, !.pc = "mkdtemp",
                         !.log = @ \o LmConfigCalls]
        ELSE [rec EXCEPT !.topic = topic, !.pc = "runner"]

\* the host calls research_topic(topic)
research_topic(i) ==
    /\ CanStart(i)
    /\ \E topic \in Topics :
        inv' = [inv EXCEPT ![i] =
                    BeginResearch([Idle EXCEPT !.entry = "research_topic"], topic)]
    /\ UNCHANGED <<variant, OPENAI_API_KEY, YOU_API_KEY, adapter, adapterError,
                   temp_output_dir, dirs, created, fs, active, shut_down, citeVars>>

\* variation: only a conversation with exactly one user message is researched
EarlyReplyExactlyOne(user_message_count, title) ==
    IF user_message_count = 1 THEN <<>> ELSE <<MsgRefusal>>

\* variation: a title-generation request is answered with a fixed title
EarlyReplyTitle(user_message_count, title) ==
    IF title THEN <<"Storm Wiki Pipeline">>
    ELSE IF user_message_count <= 1 THEN <<>> ELSE <<MsgRefusal>>

\* pipe, "if user_message_count <= 1: ... else: return ...": the fixed reply pipe
\* gives without extracting a topic, <<>> when it goes on to extract one.
\* title is body["title"], which pipe never reads.
EarlyReply(user_message_count, title) ==
    IF user_message_count <= 1 THEN <<>> ELSE <<MsgRefusal>>

\* pipe(user_message, model_id, messages, body) up to the first engine call.
\* extraction is the outcome of client.chat.completions.create:
\* [error |-> <<e>>] or [error |-> <<>>, reply |-> text]
pipe(i) ==
    /\ CanStart(i)
    /\ HasPipe(variant)
    /\ \E user_message_count \in 0..MaxUserMessages, title \in BOOLEAN,
          extraction \in {[error |-> <<e>>, reply |-> ""] : e \in ExtractionErrors}
                         \cup {[error |-> <<>>, reply |-> r] : r \in Replies} :
        LET rec == [Idle EXCEPT !.entry = "pipe",
                                !.user_message_count = user_message_count,
                                !.title = title]
        IN  inv' = [inv EXCEPT ![i] =
                IF EarlyReply(user_message_count, title) = <<>>
                THEN LET called == [rec EXCEPT !.log = <<"chat.completions.create">>]
                     IN  IF extraction.error # <<>>
                         THEN [called EXCEPT
                                  !.result = <<MsgExtractPrefix \o extraction.error[1]>>,
                                  !.pc = "done"]
                         ELSE BeginResearch(called, strip(extraction.reply))
                ELSE [rec EXCEPT !.result = EarlyReply(user_message_count, title),
                                 !.pc = "done"]]
    /\ UNCHANGED <<variant, OPENAI_API_KEY, YOU_API_KEY, adapter, adapterError,
                   temp_output_dir, dirs, created, fs, active, shut_down, citeVars>>

\* tempfile.mkdtemp(): a directory that did not exist before
FreshDir == CHOOSE d \in Dirs : d \notin created /\ \A e \in Dirs \ created : d <= e

\* per-call variants: self.temp_output_dir = tempfile.mkdtemp()
mkdtemp(i) ==
    /\ inv[i].pc = "mkdtemp"
    /\ temp_output_dir' = FreshDir
    /\ dirs' = dirs \cup {FreshDir}
    /\ created' = created \cup {FreshDir}
    /\ inv' = [inv EXCEPT ![i].pc = "runner", ![i].allocated = FreshDir,
                          ![i].log = Append(@, "mkdtemp")]
    /\ UNCHANGED <<variant, OPENAI_API_KEY, YOU_API_KEY, adapter, adapterError,
                   fs, active, shut_down, citeVars>>

\* an exception leaves research_topic: pipe's "except Exception" turns it into a
\* reply, a direct caller of research_topic receives the exception
Propagate(rec, e) ==
    IF rec.entry = "pipe"
    THEN [rec EXCEPT !.result = <<MsgExtractPrefix \o e>>, !.pc = "done"]
    ELSE [rec EXCEPT !.exc = <<e>>, !.pc = "raised"]

\* STORMWikiRunnerArguments(output_dir=self.temp_output_dir, ...), YouRM(...),
\* STORMWikiRunner(engine_args, lm_configs, research_module)
MakeRunner(i) ==
    /\ inv[i].pc = "runner"
    /\ \E failure \in {<<>>} \cup {<<e>> : e \in EngineErrors} :
        LET built == [inv[i] EXCEPT
                        !.output_dir = temp_output_dir,
                        !.log = @ \o (IF PerCall(variant) THEN <<"YouRM">> ELSE <<>>)
                                  \o <<"STORMWikiRunner">>]
        IN  inv' = [inv EXCEPT ![i] =
                        IF failure = <<>> THEN [built EXCEPT !.pc = "run"]
                        ELSE Propagate(built, failure[1])]
    /\ UNCHANGED <<variant, OPENAI_API_KEY, YOU_API_KEY, adapter, adapterError,
                   temp_output_dir, dirs, created, fs, active, shut_down, citeVars>>

\* the phase flags research_topic passes to runner.run as True
RunPhases ==
    {"do_research", "do_generate_outline", "do_generate_article",
     "do_polish_article"}

\* runner.run(topic=topic, do_research=True, ...): the engine writes its files
\* under runner.article_output_dir, or raises
run(i) ==
    /\ inv[i].pc = "run"
    /\ LET path == <<inv[i].output_dir, inv[i].topic>>
           called == [inv[i] EXCEPT !.log = Append(@, "run"),
                                    !.run_args = RunPhases]
       IN  \/ \E e \in EngineErrors :
                /\ inv' = [inv EXCEPT ![i] = Propagate(called, e)]
                /\ fs' = fs
           \/ \E written \in EngineOutputs :
                /\ inv' = [inv EXCEPT ![i] = [called EXCEPT !.pc = "post_run"]]
                /\ fs' = [fs EXCEPT ![path] = Overwrite(@, written)]
    /\ UNCHANGED <<variant, OPENAI_API_KEY, YOU_API_KEY, adapter, adapterError,
                   temp_output_dir, dirs, created, active, shut_down, citeVars>>

\* variation: summary is left out when post_run has returned
post_runThenRead(i) ==
    /\ inv[i].pc = "post_run"
    /\ \E failure \in {<<>>} \cup {<<e>> : e \in EngineErrors} :
        LET called == [inv[i] EXCEPT !.log = Append(@, "post_run")]
        IN  inv' = [inv EXCEPT ![i] =
                        IF failure = <<>> THEN [called EXCEPT !.pc = "read"]
                        ELSE Propagate(called, failure[1])]
    /\ UNCHANGED <<variant, OPENAI_API_KEY, YOU_API_KEY, adapter, adapterError,
                   temp_output_dir, dirs, created, fs, active, shut_down, citeVars>>

\* runner.post_run()
post_run(i) ==
    /\ inv[i].pc = "post_run"
    /\ \E failure \in {<<>>} \cup {<<e>> : e \in EngineErrors} :
        LET called == [inv[i] EXCEPT !.log = Append(@, "post_run")]
        IN  inv' = [inv EXCEPT ![i] =
                        IF failure = <<>> THEN [called EXCEPT !.pc = "summary"]
                        ELSE Propagate(called, failure[1])]
    /\ UNCHANGED <<variant, OPENAI_API_KEY, YOU_API_KEY, adapter, adapterError,
                   temp_output_dir, dirs, created, fs, active, shut_down, citeVars>>

\* runner.summary()
summary(i) ==
    /\ inv[i].pc = "summary"
    /\ \E failure \in {<<>>} \cup {<<e>> : e \in EngineErrors} :
        LET called == [inv[i] EXCEPT !.log = Append(@, "summary")]
        IN  inv' = [inv EXCEPT ![i] =
                        IF failure = <<>> THEN [called EXCEPT !.pc = "read"]
                        ELSE Propagate(called, failure[1])]
    /\ UNCHANGED <<variant, OPENAI_API_KEY, YOU_API_KEY, adapter, adapterError,
                   temp_output_dir, dirs, created, fs, active, shut_down, citeVars>>

\* json.load(f): <<doc>>, or <<>> when it raises JSONDecodeError
json_load(file) == IF file.wellformed THEN <<file.doc>> ELSE <<>>

\* variation: the heading is appended before the citations are rendered
AppendCitationsPartial(polished_article, citations) ==
    IF citations = <<>> THEN polished_article
    ELSE IF json_load(citations[1]) = <<>> THEN polished_article
    ELSE LET rendered == generate_citations_markdown(json_load(citations[1])[1])
         IN  polished_article \o "\n\n" \o "## Citations\n\n" \o rendered.markdown

\* providers variant, the try block after the article is read: the text returned
AppendCitations(polished_article, citations) ==
    IF citations = <<>> THEN polished_article               \* "Citations file not found."
    ELSE IF json_load(citations[1]) = <<>> THEN polished_article      \* except Exception
    ELSE LET rendered == generate_citations_markdown(json_load(citations[1])[1])
         IN  IF rendered.raised # "" THEN polished_article            \* except Exception
             ELSE polished_article \o "\n\n" \o rendered.markdown

\* variation: every variant appends the citations section
ArticleResultAlwaysCites(v, files) ==
    IF files.polished # <<>>
    THEN AppendCitations(files.polished[1], files.citations)
    ELSE MsgNotFound

\* variation: a missing article is reported as an empty article
ArticleResultEmptyWhenMissing(v, files) ==
    IF files.polished # <<>>
    THEN IF HasCitations(v)
         THEN AppendCitations(files.polished[1], files.citations)
         ELSE files.polished[1]
    ELSE ""

\* what research_topic returns once summary has returned, given the files under
\* runner.article_output_dir
ArticleResult(v, files) ==
    IF files.polished # <<>>
    THEN IF HasCitations(v)
         THEN AppendCitations(files.polished[1], files.citations)
         ELSE files.polished[1]
    ELSE MsgNotFound

\* the file operations research_topic performs to get there
FileCalls(v, files) ==
    <<"exists storm_gen_article_polished.txt">>
    \o (IF files.polished # <<>>
        THEN <<"open storm_gen_article_polished.txt">>
             \o (IF HasCitations(v)
                 THEN <<"exists url_to_info.json">>
                      \o (IF files.citations # <<>>
                          THEN <<"open url_to_info.json">> ELSE <<>>)
                 ELSE <<>>)
        ELSE <<>>)

FilesAt(dir, topic) ==
    IF dir \in dirs /\ dir \in Dirs THEN fs[<<dir, topic>>] ELSE NoFiles

\* research_topic from os.path.join(runner.article_output_dir, ...) to its return
ReadArticle(i) ==
    /\ inv[i].pc = "read"
    /\ LET files == FilesAt(inv[i].output_dir, inv[i].topic)
       IN  inv' = [inv EXCEPT ![i].pc = "done",
                              ![i].result = <<ArticleResult(variant, files)>>,
                              ![i].log = @ \o FileCalls(variant, files)]
    /\ UNCHANGED <<variant, OPENAI_API_KEY, YOU_API_KEY, adapter, adapterError,
                   temp_output_dir, dirs, created, fs, active, shut_down, citeVars>>

\* the host takes the reply (or the exception); the slot is free again
Return(i) ==
    /\ inv[i].pc \in {"done", "raised"}
    /\ inv' = [inv EXCEPT ![i] = Idle]
    /\ UNCHANGED <<variant, OPENAI_API_KEY, YOU_API_KEY, adapter, adapterError,
                   temp_output_dir, dirs, created, fs, active, shut_down, citeVars>>

\* variation: the hook removes the temporary directories
DirsAfterShutdownRemoved(existing) == {}

\* Pipeline.on_shutdown: prints and passes; the directories it leaves on disk
DirsAfterShutdown(existing) == existing

on_shutdown ==
    /\ adapter = "ready"
    /\ HasShutdownHook(variant)
    /\ ~shut_down
    /\ \A i \in Invocations : ~InFlight(i)
    /\ shut_down' = TRUE
    /\ dirs' = DirsAfterShutdown(dirs)
    /\ UNCHANGED <<variant, OPENAI_API_KEY, YOU_API_KEY, adapter, adapterError,
                   temp_output_dir, created, fs, active, inv, citeVars>>

-----------------------------------------------------------------------------
(* Loading the module and constructing the adapter *)

\* "" when the module loads and the adapter object is constructed, else the error:
\*   pipelines:    the dict literal in Pipeline.__init__ lacks a comma between the
\*                 REGULAR_MODEL_NAME and SMART_MODEL_NAME entries
\*   integrations: Tools.__init__ uses ModelClass and openai_kwargs, names that are
\*                 defined nowhere
ConstructError(v) ==
    CASE v = "pipelines" -> "SyntaxError"
      [] v = "integrations" -> "NameError"
      [] OTHER -> ""

\* the host loads the file and constructs Pipeline() / Tools(valves)
Construct ==
    /\ adapter = "unloaded"
    /\ IF ConstructError(variant) # ""
       THEN /\ adapter' = "failed"
            /\ adapterError' = ConstructError(variant)
            /\ UNCHANGED <<temp_output_dir, dirs, created>>
       ELSE /\ adapter' = "ready"
            /\ adapterError' = ""
            /\ IF PerCall(variant)
               THEN UNCHANGED <<temp_output_dir, dirs, created>>
               ELSE /\ temp_output_dir' = FreshDir     \* mkdtemp in Tools.__init__
                    /\ dirs' = dirs \cup {FreshDir}
                    /\ created' = created \cup {FreshDir}
    /\ UNCHANGED <<variant, OPENAI_API_KEY, YOU_API_KEY, fs, active, inv,
                   shut_down, citeVars>>

-----------------------------------------------------------------------------
(* Specification of the adapter: the host uses one invocation at a time *)

NotRendered == Raised("<not rendered>")
NoDocument == Document({}, 0, <<<<>>, <<>>>>, <<>>, <<>>)

InitAdapter ==
    /\ variant \in Variants
    /\ OPENAI_API_KEY \in Keys
    /\ YOU_API_KEY \in Keys
    /\ adapter = "unloaded"
    /\ adapterError = ""
    /\ temp_output_dir = 0
    /\ dirs = {}
    /\ created = {}
    /\ fs = [path \in Dirs \X Topics |-> NoFiles]
    /\ inv = [i \in Invocations |-> Idle]
    /\ shut_down = FALSE

Init ==
    /\ InitAdapter
    /\ active = {"a"}
    /\ citations_data = NoDocument
    /\ citations_result = NotRendered

Next ==
    \/ Construct
    \/ on_shutdown
    \/ \E i \in Invocations :
        \/ research_topic(i)
        \/ pipe(i)
        \/ mkdtemp(i)
        \/ MakeRunner(i)
        \/ run(i)
        \/ post_run(i)
        \/ summary(i)
        \/ ReadArticle(i)
        \/ Return(i)

Spec == Init /\ [][Next]_vars

-----------------------------------------------------------------------------
(* Specification of the adapter with two research_topic invocations in progress
   at once: the host calls research_topic on worker threads, on one instance *)

InitConcurrent ==
    /\ InitAdapter
    /\ active = Invocations
    /\ citations_data = NoDocument
    /\ citations_result = NotRendered

NextConcurrent ==
    \/ Construct
    \/ \E i \in Invocations :
        \/ research_topic(i)
        \/ mkdtemp(i)
        \/ MakeRunner(i)
        \/ run(i)
        \/ post_run(i)
        \/ summary(i)
        \/ ReadArticle(i)
        \/ Return(i)

SpecConcurrent == InitConcurrent /\ [][NextConcurrent]_vars

-----------------------------------------------------------------------------
(* Specification of the citations renderer alone *)

Render ==
    /\ citations_result = NotRendered
    /\ citations_result' = generate_citations_markdown(citations_data)
    /\ UNCHANGED <<citations_data, adapterVars, active>>

InitCite ==
    /\ InitAdapter
    /\ variant = "providers"
    /\ OPENAI_API_KEY = "sk-key"
    /\ YOU_API_KEY = "sk-key"
    /\ active = {}
    /\ \E n \in 0..MaxUrls, keys \in SUBSET BothKeys, meta \in MetaChoices :
         \E lens \in [1..n -> 0..MaxSnippets],
            idx \in [1..n -> IndexValues \cup {NoNumber}] :
            citations_data = Document(keys, n, meta, lens, idx)
    /\ citations_result = NotRendered

NextCite == Render

SpecCite == InitCite /\ [][NextCite]_vars

-----------------------------------------------------------------------------
(* Properties *)

In(seq, x) == \E k \in DOMAIN seq : seq[k] = x

\* research_topic has been entered by invocation i (directly or from pipe)
Entered(i) == inv[i].topic # ""

\* invocation i has returned from the file check at the end of research_topic
ReadDone(i) ==
    /\ inv[i].pc = "done"
    /\ In(inv[i].log, "exists storm_gen_article_polished.txt")

FilesOf(i) == FilesAt(inv[i].output_dir, inv[i].topic)

EngineCalls == {"STORMWikiRunner", "run", "post_run", "summary"}

\* C1 as stated: whenever research_topic has been entered with an empty
\* YOU_API_KEY, whatever OPENAI_API_KEY is, it has returned the You.com guidance
\* string and has not constructed the engine.
C1_YouGuidanceWhateverOpenAIKey ==
    \A i \in Invocations :
        (Entered(i) /\ YOU_API_KEY = "") =>
            /\ inv[i].pc = "done"
            /\ inv[i].result = <<MsgNoYou>>
            /\ ~In(inv[i].log, "STORMWikiRunner")

\* C1 amended: with an empty YOU_API_KEY research_topic returns the You.com
\* guidance string when OPENAI_API_KEY is set and the OpenAI guidance string when
\* OPENAI_API_KEY is empty too (that key is checked first); in both cases it
\* returns at once and never constructs the engine.
C1_YouGuidance ==
    \A i \in Invocations :
        (Entered(i) /\ YOU_API_KEY = "") =>
            /\ inv[i].pc = "done"
            /\ inv[i].result =
                  IF OPENAI_API_KEY = "" THEN <<MsgNoOpenAI>> ELSE <<MsgNoYou>>
            /\ \A c \in EngineCalls : ~In(inv[i].log, c)

C1_Witness ==
    \E i \in Invocations :
        /\ Entered(i) /\ inv[i].entry = "research_topic"
        /\ YOU_API_KEY = "" /\ OPENAI_API_KEY # ""
        /\ inv[i].result = <<MsgNoYou>>

\* C2: whenever research_topic has been entered with an empty OPENAI_API_KEY and
\* a non-empty YOU_API_KEY, it has returned the OpenAI guidance string without
\* constructing the engine, calling run, or allocating a temporary directory.
C2_OpenAIGuidance ==
    \A i \in Invocations :
        (Entered(i) /\ OPENAI_API_KEY = "" /\ YOU_API_KEY # "") =>
            /\ inv[i].pc = "done"
            /\ inv[i].result = <<MsgNoOpenAI>>
            /\ \A c \in EngineCalls \cup {"mkdtemp"} : ~In(inv[i].log, c)
            /\ created = {}

C2_Witness ==
    \E i \in Invocations :
        /\ Entered(i) /\ inv[i].entry = "research_topic"
        /\ OPENAI_API_KEY = "" /\ YOU_API_KEY # ""
        /\ inv[i].result = <<MsgNoOpenAI>>

\* C3 as stated: in every variant, when research_topic has read its output
\* directory and the polished article is there, the reply is exactly the
\* article's contents, whatever else the directory holds.
C3_ReplyIsArticleOnly ==
    \A i \in Invocations :
        (ReadDone(i) /\ FilesOf(i).polished # <<>>) =>
            inv[i].result = FilesOf(i).polished

\* the citations file is there, is well-formed JSON, has the key url_to_info,
\* has the key url_to_unified_index unless url_to_info is empty, and every
\* citation number assigned to a URL of url_to_info converts to an integer
CitationsUsable(files) ==
    /\ files.citations # <<>>
    /\ files.citations[1].wellformed
    /\ LET doc == files.citations[1].doc
       IN  /\ "url_to_info" \in doc.keys
           /\ doc.url_to_info # <<>> => "url_to_unified_index" \in doc.keys
           /\ \A k \in 1..Len(doc.url_to_info) :
                LET u == doc.url_to_info[k].url
                IN  u \in DOMAIN doc.url_to_unified_index =>
                        int(doc.url_to_unified_index[u]) # <<>>

\* C3 amended: the reply is exactly the article's contents, except in the
\* citations-enabled (providers) variant when a usable url_to_info.json lies in
\* the same directory: then it is the contents, a blank line and the rendered
\* citations section.
C3_ReplyIsArticle ==
    \A i \in Invocations :
        (ReadDone(i) /\ FilesOf(i).polished # <<>>) =>
            inv[i].result =
                IF variant = "providers" /\ CitationsUsable(FilesOf(i))
                THEN <<FilesOf(i).polished[1] \o "\n\n"
                       \o generate_citations_markdown(
                              FilesOf(i).citations[1].doc).markdown>>
                ELSE FilesOf(i).polished

C3_Witness ==
    \E i \in Invocations :
        /\ ReadDone(i)
        /\ variant = "filters"
        /\ FilesOf(i).polished # <<>> /\ FilesOf(i).polished[1] # ""
        /\ CitationsUsable(FilesOf(i))
        /\ inv[i].result = FilesOf(i).polished

\* C4: when run, post_run and summary have returned and the output directory
\* holds no polished article, research_topic returns the not-found string (it
\* raises nothing) and has not looked at the citations file.
C4_NotFound ==
    \A i \in Invocations :
        (inv[i].pc \in {"done", "raised"}
         /\ In(inv[i].log, "exists storm_gen_article_polished.txt")
         /\ FilesOf(i).polished = <<>>) =>
            /\ inv[i].pc = "done"
            /\ inv[i].result = <<MsgNotFound>>
            /\ ~In(inv[i].log, "exists url_to_info.json")
            /\ ~In(inv[i].log, "open url_to_info.json")

C4_Witness ==
    \E i \in Invocations :
        /\ ReadDone(i)
        /\ variant = "providers"
        /\ FilesOf(i).polished = <<>>
        /\ FilesOf(i).citations # <<>>
        /\ inv[i].result = <<MsgNotFound>>

\* the citation number the renderer must print for a URL: the assigned number,
\* 0 when none is assigned
NumberOf(data, url) ==
    IF url \in DOMAIN data.url_to_unified_index
    THEN int(data.url_to_unified_index[url])[1]
    ELSE 0

\* C5: when generate_citations_markdown returns, it has emitted exactly one
\* entry per URL of url_to_info, in ascending order of citation number (0 for a
\* URL without one), URLs with equal numbers in their url_to_info order, and
\* each entry lists the first three snippets of its URL, in order, and no more.
C5_OneEntryPerUrlSorted ==
    citations_result.raised = "" =>
        LET uti == citations_data.url_to_info
            E == citations_result.entries
            pos(url) == CHOOSE k \in 1..Len(uti) : uti[k].url = url
        IN  /\ Len(E) = Len(uti)
            /\ \A k \in 1..Len(uti) :
                  Cardinality({j \in 1..Len(E) : E[j].url = uti[k].url}) = 1
            /\ \A j \in 1..Len(E) :
                  /\ E[j].number = NumberOf(citations_data, E[j].url)
                  /\ LET all == uti[pos(E[j].url)].info.snippets
                     IN  /\ Len(E[j].snippets) <= 3
                         /\ Len(E[j].snippets) = IF Len(all) < 3 THEN Len(all) ELSE 3
                         /\ \A m \in 1..Len(E[j].snippets) : E[j].snippets[m] = all[m]
            /\ \A j1, j2 \in 1..Len(E) :
                  j1 < j2 =>
                     \/ E[j1].number < E[j2].number
                     \/ /\ E[j1].number = E[j2].number
                        /\ pos(E[j1].url) < pos(E[j2].url)

C5_Witness ==
    /\ citations_result.raised = ""
    /\ Len(citations_result.entries) = 2
    /\ citations_result.entries[1].url = UrlName(2)
    /\ citations_result.entries[1].number = 1
    /\ citations_result.entries[2].number = 2
    /\ Len(citations_data.url_to_info[2].info.snippets) = 4
    /\ Len(citations_result.entries[1].snippets) = 3

\* the citations file cannot be used: it is absent, is not JSON, lacks
\* url_to_info, lacks url_to_unified_index while url_to_info has URLs, or
\* assigns a URL a citation number that is no number
CitationsFailure(files) ==
    \/ files.citations = <<>>
    \/ ~files.citations[1].wellformed
    \/ LET doc == files.citations[1].doc
       IN  \/ "url_to_info" \notin doc.keys
           \/ doc.url_to_info # <<>> /\ "url_to_unified_index" \notin doc.keys
           \/ /\ "url_to_unified_index" \in doc.keys
              /\ \E k \in 1..Len(doc.url_to_info) :
                    LET u == doc.url_to_info[k].url
                    IN  /\ u \in DOMAIN doc.url_to_unified_index
                        /\ ~doc.url_to_unified_index[u].num
                        /\ doc.url_to_unified_index[u].s = "x"

\* C6: in the providers variant, when the polished article exists and the
\* citations file cannot be used, research_topic still returns (nothing is
\* raised) and returns exactly the article, with no citations text after it.
C6_CitationsFailureSwallowed ==
    \A i \in Invocations :
        (variant = "providers"
         /\ inv[i].pc \in {"done", "raised"}
         /\ In(inv[i].log, "exists storm_gen_article_polished.txt")
         /\ FilesOf(i).polished # <<>>
         /\ CitationsFailure(FilesOf(i))) =>
            /\ inv[i].pc = "done"
            /\ inv[i].result = FilesOf(i).polished

C6_Witness ==
    \E i \in Invocations :
        /\ variant = "providers"
        /\ ReadDone(i)
        /\ FilesOf(i).polished # <<>> /\ FilesOf(i).polished[1] # ""
        /\ FilesOf(i).citations # <<>>
        /\ FilesOf(i).citations[1].wellformed
        /\ FilesOf(i).citations[1].doc.keys = BothKeys
        /\ CitationsFailure(FilesOf(i))
        /\ inv[i].result = FilesOf(i).polished

\* C7 as stated: pipe calls the topic-extraction model only when the
\* conversation holds exactly one user message, and answers a conversation with
\* two or more with the refusal string, calling nothing.
C7_ResearchOnlyForExactlyOne ==
    \A i \in Invocations :
        inv[i].entry = "pipe" =>
            /\ In(inv[i].log, "chat.completions.create")
                  => inv[i].user_message_count = 1
            /\ inv[i].user_message_count >= 2 =>
                  inv[i].result = <<MsgRefusal>> /\ inv[i].log = <<>>

\* C7 amended: pipe extracts a topic (and researches it when the extraction
\* succeeds) exactly when the conversation holds at most one user message, none
\* included; a conversation with two or more gets the refusal string, with no
\* language-model call and no engine call.
C7_FirstTurnGate ==
    \A i \in Invocations :
        inv[i].entry = "pipe" =>
            /\ In(inv[i].log, "chat.completions.create")
                  <=> inv[i].user_message_count <= 1
            /\ inv[i].user_message_count >= 2 =>
                  /\ inv[i].pc = "done"
                  /\ inv[i].result = <<MsgRefusal>>
                  /\ inv[i].log = <<>>

C7_Witness ==
    \E i \in Invocations :
        /\ inv[i].entry = "pipe"
        /\ inv[i].user_message_count >= 2
        /\ inv[i].result = <<MsgRefusal>>

\* C8: an exception raised by the engine is never turned into a reply: an
\* invocation that has constructed the engine returns a string only from the
\* file check that follows summary.
C8_EngineErrorsPropagate ==
    \A i \in Invocations :
        (inv[i].pc = "done" /\ In(inv[i].log, "STORMWikiRunner")) =>
            In(inv[i].log, "exists storm_gen_article_polished.txt")

\* C9 as stated: a title-generation request to pipe is answered without topic
\* extraction and without research.
C9_TitleProbeSkipsResearch ==
    \A i \in Invocations :
        (inv[i].entry = "pipe" /\ inv[i].title) =>
            /\ ~In(inv[i].log, "chat.completions.create")
            /\ \A c \in EngineCalls : ~In(inv[i].log, c)

\* C9 amended: no variant treats a title-generation request specially: pipe
\* never reads the request body, so such a request with at most one user
\* message goes through topic extraction like any other, its reply being the
\* extraction error, a guidance string or the outcome of research, and one with
\* more user messages gets the refusal string.
C9_TitleProbeHandledLikeAnyRequest ==
    \A i \in Invocations :
        (inv[i].entry = "pipe" /\ inv[i].title) =>
            IF inv[i].user_message_count <= 1
            THEN /\ In(inv[i].log, "chat.completions.create")
                 /\ inv[i].pc = "done" =>
                       \/ \E e \in ExtractionErrors \cup EngineErrors :
                             inv[i].result = <<MsgExtractPrefix \o e>>
                       \/ inv[i].result \in {<<MsgNoOpenAI>>, <<MsgNoYou>>}
                       \/ ReadDone(i)
            ELSE inv[i].result = <<MsgRefusal>>

C9_Witness ==
    \E i \in Invocations :
        /\ inv[i].entry = "pipe"
        /\ inv[i].title
        /\ In(inv[i].log, "run")
        /\ ReadDone(i)

\* C10 as stated: once the shutdown hook of the variant that has one has run,
\* no temporary directory created for an earlier invocation exists.
C10_ShutdownRemovesDirs ==
    shut_down => created \cap dirs = {}

\* C10 amended: no variant deletes a temporary directory, on shutdown or at any
\* other time: the one shutdown hook in the source (providers variant) only
\* prints, so every directory mkdtemp has returned still exists after it.
C10_DirsNeverRemoved ==
    /\ created \subseteq dirs
    /\ shut_down => (variant = "providers" /\ dirs = created)

C10_Witness ==
    /\ shut_down
    /\ Cardinality(created) = MaxDirs
    /\ dirs = created

\* C11: in the per-call variants, whatever the interleaving of two invocations
\* on one instance, the output directory an invocation hands to
\* STORMWikiRunnerArguments is the one that invocation got from mkdtemp, and no
\* other invocation in progress uses it.
C11_OwnDirectory ==
    \A i \in Invocations :
        (PerCall(variant) /\ inv[i].output_dir # 0) =>
            /\ inv[i].output_dir = inv[i].allocated
            /\ \A j \in Invocations \ {i} :
                  inv[j].output_dir # inv[i].output_dir

IsLifecycleCall(c) == c \in {"run", "post_run", "summary"}
LifecycleOrder == <<"run", "post_run", "summary">>
IsFileCall(c) ==
    c \in {"exists storm_gen_article_polished.txt",
           "open storm_gen_article_polished.txt",
           "exists url_to_info.json", "open url_to_info.json"}

\* C12: in an invocation that has passed both credential checks, the engine
\* calls made so far are run, post_run, summary in that order, each at most
\* once, run with all four phases enabled; when run has returned the next call
\* is post_run and when that has returned the next is summary; the existence
\* check and the reads happen only after summary has returned, by when each of
\* the three has been called exactly once.
C12_EngineCallOrder ==
    \A i \in Invocations :
        LET calls == SelectSeq(inv[i].log, IsLifecycleCall)
            upTo(n) == /\ Len(calls) = n
                       /\ \A k \in 1..n : calls[k] = LifecycleOrder[k]
        IN  /\ Len(calls) <= 3
            /\ upTo(Len(calls))
            /\ In(inv[i].log, "run") => inv[i].run_args =
                  {"do_research", "do_generate_outline", "do_generate_article",
                   "do_polish_article"}
            /\ inv[i].pc = "run" => upTo(0)
            /\ inv[i].pc = "post_run" => upTo(1)
            /\ inv[i].pc = "summary" => upTo(2)
            /\ inv[i].pc = "read" => upTo(3)
            /\ \A k \in DOMAIN inv[i].log :
                  IsFileCall(inv[i].log[k]) =>
                        /\ upTo(3)
                        /\ \E j \in 1..(k - 1) : inv[i].log[j] = "summary"

C12_Witness ==
    \E i \in Invocations :
        /\ ReadDone(i)
        /\ OPENAI_API_KEY # "" /\ YOU_API_KEY # ""
        /\ SelectSeq(inv[i].log, IsLifecycleCall) = LifecycleOrder
        /\ FilesOf(i).polished # <<>>

\* C13: when either key is empty, an invocation (research_topic, or pipe on the
\* first user turn) has called no collaborator, has raised nothing, and what it
\* returns is the guidance string of the missing key.
C13_MissingKeyDetectedFirst ==
    \A i \in Invocations :
        (/\ OPENAI_API_KEY = "" \/ YOU_API_KEY = ""
         /\ inv[i].entry # ""
         /\ inv[i].entry = "pipe" => inv[i].user_message_count <= 1) =>
            /\ inv[i].log = <<>>
            /\ inv[i].pc = "done"
            /\ inv[i].result \in {<<MsgNoOpenAI>>, <<MsgNoYou>>}

\* C14: in the per-instance variants, once the host has constructed the
\* adapter, construction has completed and has attached one temporary output
\* directory to the instance, and every research_topic call on it since has
\* used that directory and has allocated nothing new.
C14_ConstructedOnceReused ==
    (~PerCall(variant) /\ adapter # "unloaded") =>
        /\ adapter = "ready"
        /\ temp_output_dir # 0
        /\ created = {temp_output_dir}
        /\ \A i \in Invocations :
              /\ ~In(inv[i].log, "mkdtemp")
              /\ inv[i].output_dir \in {0, temp_output_dir}

====
